---- MODULE Spec2Model ----
(***************************************************************************)
(* Reference-resolution core of fusionner (src/src/lib.rs):                *)
(*   RepositoryConfiguration::resolve_target_ref                           *)
(*   WatchReferences::new                                                  *)
(*   WatchReferences::resolve_watch_refs                                   *)
(* Reference names and regex patterns are sequences of one-character       *)
(* strings, so that matching is computed and not assumed.                  *)
(***************************************************************************)
EXTENDS Integers, Sequences, FiniteSets, TLC

VARIABLES
    target_ref,     \* RepositoryConfiguration.target_ref : Option<String>
    remoteLs,       \* what the remote advertises: sequence of RemoteHead
    remoteHead,     \* what the remote reports as its default HEAD : Option<String>
    remoteFault,    \* the error the next remote query fails with, or NoFault
    cfgExacts,      \* `exacts` argument of WatchReferences::new
    cfgRegexes,     \* `regexes` argument of WatchReferences::new
    watch,          \* Result<WatchReferences, regex::Error> of the last new()
    target_result,  \* Result<String, git2::Error> of the last resolve_target_ref
    prev_result,    \* what the call to resolve_target_ref before that one returned
    watch_result,   \* HashSet<String> returned by the last resolve_watch_refs
    pc              \* caller's position: which call has just returned

vars == <<target_ref, remoteLs, remoteHead, remoteFault, cfgExacts, cfgRegexes,
          watch, target_result, prev_result, watch_result, pc>>

----------------------------------------------------------------------------
(* Bounds *)

MaxLs == 3
MaxExacts == 1
MaxPats == 2

----------------------------------------------------------------------------
(* Values *)

None == <<>>
Some(x) == <<x>>
Unwrap(o) == o[1]

HEAD == <<"H">>
Master == <<"m">>
Pull42 == <<"p", "4">>

\* a proper prefix of Pull42 that no remote advertises
PullPrefix == <<"p">>

RefNames == {HEAD, Master, Pull42}
ConfigNames == RefNames \cup {PullPrefix}
ExactNames == {HEAD, Master, PullPrefix}

\* git::RemoteHead, reduced to the two fields the core reads
RemoteHead(n, t) == [name |-> n, symref_target |-> t]

RemoteHeads ==
    { RemoteHead(HEAD, Some(Master)),
      RemoteHead(HEAD, None),
      RemoteHead(Master, None),
      RemoteHead(Pull42, None) }

NoFault == "-"
RemoteErrors == {"E1", "E2"}

\* ^refs/pull/\d+/head$  ~  ^p.$
PullPattern == <<"^", "p", ".", "$">>
MasterPattern == <<"(", "m", ")">>
UnclosedPattern == <<"(", "p">>

PatternUniverse == {PullPattern, MasterPattern, UnclosedPattern}

SeqsUpTo(S, n) == UNION { [1..k -> S] : k \in 0..n }

----------------------------------------------------------------------------
(* Result values *)

Ok(v) == [tag |-> "Ok", val |-> v, cause |-> NoFault]
ErrTargetNotFound(r) == [tag |-> "TargetNotFound", val |-> r, cause |-> NoFault]
ErrNoDefaultHead == [tag |-> "NoDefaultHead", val |-> <<>>, cause |-> NoFault]
ErrRemote(e) == [tag |-> "RemoteError", val |-> <<>>, cause |-> e]
NotCalled == [tag |-> "NotCalled", val |-> <<>>, cause |-> NoFault]

----------------------------------------------------------------------------
(* The remote collaborator (git::Remote) *)

\* remote.remote_ls() : Result<Vec<RemoteHead>, git2::Error>
remote_ls ==
    IF remoteFault # NoFault
    THEN [tag |-> "RemoteError", val |-> <<>>, cause |-> remoteFault]
    ELSE [tag |-> "Ok", val |-> remoteLs, cause |-> NoFault]

\* remote.head() : Result<Option<String>, git2::Error>
remote_head ==
    IF remoteFault # NoFault
    THEN [tag |-> "RemoteError", val |-> <<>>, cause |-> remoteFault]
    ELSE [tag |-> "Ok", val |-> remoteHead, cause |-> NoFault]

\* RemoteHead::flatten_clone : the symbolic target if there is one, else the name
flatten_clone(r) ==
    IF r.symref_target # None THEN Unwrap(r.symref_target) ELSE r.name

----------------------------------------------------------------------------
(* RepositoryConfiguration::resolve_target_ref *)

\* variants of resolve_target_ref with a plausible slip each

\* compares the flattened names of the listing instead of the entries' names
resolve_target_ref_flattened(cfg_target) ==
    IF cfg_target # None
    THEN IF remote_ls.tag # "Ok"
         THEN ErrRemote(remote_ls.cause)
         ELSE IF ~ \E i \in 1..Len(remote_ls.val) :
                      flatten_clone(remote_ls.val[i]) = Unwrap(cfg_target)
              THEN ErrTargetNotFound(Unwrap(cfg_target))
              ELSE Ok(Unwrap(cfg_target))
    ELSE IF remote_head.tag # "Ok" THEN ErrRemote(remote_head.cause)
         ELSE IF remote_head.val = None THEN ErrNoDefaultHead
         ELSE Ok(Unwrap(remote_head.val))

\* validates the remote's HEAD against the listing as well
resolve_target_ref_head_listed(cfg_target) ==
    IF cfg_target # None
    THEN IF remote_ls.tag # "Ok"
         THEN ErrRemote(remote_ls.cause)
         ELSE IF ~ \E i \in 1..Len(remote_ls.val) :
                      remote_ls.val[i].name = Unwrap(cfg_target)
              THEN ErrTargetNotFound(Unwrap(cfg_target))
              ELSE Ok(Unwrap(cfg_target))
    ELSE IF remote_head.tag # "Ok" THEN ErrRemote(remote_head.cause)
         ELSE IF \/ remote_head.val = None
                 \/ ~ \E i \in 1..Len(remoteLs) :
                        remoteLs[i].name = Unwrap(remote_head.val)
              THEN ErrNoDefaultHead
              ELSE Ok(Unwrap(remote_head.val))

\* returns the configured target without looking for it in the listing
resolve_target_ref_unchecked(cfg_target) ==
    IF cfg_target # None
    THEN IF remote_ls.tag # "Ok"
         THEN ErrRemote(remote_ls.cause)
         ELSE Ok(Unwrap(cfg_target))
    ELSE IF remote_head.tag # "Ok" THEN ErrRemote(remote_head.cause)
         ELSE IF remote_head.val = None THEN ErrNoDefaultHead
         ELSE Ok(Unwrap(remote_head.val))

\* takes a failed query for an empty answer (unwrap_or_default instead of ?)
resolve_target_ref_swallow(cfg_target) ==
    IF cfg_target # None
    THEN IF \/ remote_ls.tag # "Ok"
            \/ ~ \E i \in 1..Len(remote_ls.val) :
                   remote_ls.val[i].name = Unwrap(cfg_target)
         THEN ErrTargetNotFound(Unwrap(cfg_target))
         ELSE Ok(Unwrap(cfg_target))
    ELSE IF remote_head.tag # "Ok" \/ remote_head.val = None
         THEN ErrNoDefaultHead
         ELSE Ok(Unwrap(remote_head.val))

\* answers from the previous successful resolution when there is one
resolve_target_ref_cached(cfg_target) ==
    IF target_result.tag = "Ok"
    THEN target_result
    ELSE IF cfg_target # None
    THEN IF remote_ls.tag # "Ok"
         THEN ErrRemote(remote_ls.cause)
         ELSE IF ~ \E i \in 1..Len(remote_ls.val) :
                      remote_ls.val[i].name = Unwrap(cfg_target)
              THEN ErrTargetNotFound(Unwrap(cfg_target))
              ELSE Ok(Unwrap(cfg_target))
    ELSE IF remote_head.tag # "Ok" THEN ErrRemote(remote_head.cause)
         ELSE IF remote_head.val = None THEN ErrNoDefaultHead
         ELSE Ok(Unwrap(remote_head.val))

\* the code
resolve_target_ref(cfg_target) ==
    IF cfg_target # None
    THEN LET reference == Unwrap(cfg_target)
             remote_refs == remote_ls
         IN  IF remote_refs.tag # "Ok"
             THEN ErrRemote(remote_refs.cause)
             ELSE IF ~ \E i \in 1..Len(remote_refs.val) :
                          remote_refs.val[i].name = reference
                  THEN ErrTargetNotFound(reference)
                  ELSE Ok(reference)
    ELSE LET head == remote_head
         IN  IF head.tag # "Ok"
             THEN ErrRemote(head.cause)
             ELSE IF head.val = None
                  THEN ErrNoDefaultHead
                  ELSE Ok(Unwrap(head.val))

----------------------------------------------------------------------------
(* regex::RegexSet, for patterns built from literals, ".", "^", "$", "(", ")" *)

\* the pattern parses: every ")" closes an open group, no group is left open
RECURSIVE Balanced(_, _, _)
Balanced(p, k, depth) ==
    IF k > Len(p) THEN depth = 0
    ELSE IF p[k] = "(" THEN Balanced(p, k + 1, depth + 1)
    ELSE IF p[k] = ")" THEN depth > 0 /\ Balanced(p, k + 1, depth - 1)
    ELSE Balanced(p, k + 1, depth)

IsValidPattern(p) == Balanced(p, 1, 0)

\* tokens k.. of p match s starting after i consumed characters
RECURSIVE MatchAt(_, _, _, _)
MatchAt(p, k, s, i) ==
    IF k > Len(p) THEN TRUE
    ELSE IF p[k] = "^" THEN i = 0 /\ MatchAt(p, k + 1, s, i)
    ELSE IF p[k] = "$" THEN i = Len(s) /\ MatchAt(p, k + 1, s, i)
    ELSE IF p[k] \in {"(", ")"} THEN MatchAt(p, k + 1, s, i)
    ELSE IF p[k] = "." THEN i < Len(s) /\ MatchAt(p, k + 1, s, i + 1)
    ELSE i < Len(s) /\ s[i + 1] = p[k] /\ MatchAt(p, k + 1, s, i + 1)

\* Regex::is_match: an unanchored search
PatternMatches(p, s) == \E i \in 0..Len(s) : MatchAt(p, 1, s, i)

\* RegexSet::new : the compiled set, or the error of the first pattern that
\* fails to parse
RegexSetNew(regexes) ==
    IF \E j \in 1..Len(regexes) : ~ IsValidPattern(regexes[j])
    THEN [tag |-> "InvalidPattern",
          bad |-> CHOOSE j \in 1..Len(regexes) :
                      /\ ~ IsValidPattern(regexes[j])
                      /\ \A l \in 1..(j - 1) : IsValidPattern(regexes[l]),
          set |-> <<>>]
    ELSE [tag |-> "Ok", bad |-> 0, set |-> regexes]

\* RegexSet::is_match : some pattern of the set matches
is_match(regex_set, s) ==
    \E j \in 1..Len(regex_set) : PatternMatches(regex_set[j], s)

----------------------------------------------------------------------------
(* WatchReferences *)

NotBuilt == [tag |-> "NotBuilt", bad |-> 0, regex_set |-> <<>>, exact_list |-> <<>>]

\* variant of new: drops the patterns that do not parse instead of failing
WatchReferencesNew_lenient(exacts, regexes) ==
    IF \A j \in 1..Len(regexes) : IsValidPattern(regexes[j])
    THEN [tag |-> "Ok", bad |-> 0, regex_set |-> regexes, exact_list |-> exacts]
    ELSE [tag |-> "Ok", bad |-> 0, regex_set |-> <<>>, exact_list |-> exacts]

\* WatchReferences::new
WatchReferencesNew(exacts, regexes) ==
    LET exact_list == exacts
        regex_set == RegexSetNew(regexes)
    IN  IF regex_set.tag # "Ok"
        THEN [tag |-> "InvalidPattern", bad |-> regex_set.bad,
              regex_set |-> <<>>, exact_list |-> <<>>]
        ELSE [tag |-> "Ok", bad |-> 0,
              regex_set |-> regex_set.set, exact_list |-> exact_list]

\* variant of the flattening: keeps every entry's own name
FlattenAll_own_names(ls) == [i \in 1..Len(ls) |-> ls[i].name]

\* the flattened listing of resolve_watch_refs, one name per entry
FlattenAll(ls) == [i \in 1..Len(ls) |-> flatten_clone(ls[i])]

Contains(names, s) == \E i \in 1..Len(names) : names[i] = s

\* variants of resolve_watch_refs with a plausible slip each

\* inserts every configured exact name, advertised or not
resolve_watch_refs_unfiltered(self, ls) ==
    { self.exact_list[i] : i \in 1..Len(self.exact_list) }
      \cup { FlattenAll(ls)[i] : i \in
               { j \in 1..Len(ls) : is_match(self.regex_set, FlattenAll(ls)[j]) } }

\* looks for a configured exact name among the first listing entry only
resolve_watch_refs_first_entry(self, ls) ==
    { self.exact_list[i] : i \in
        { j \in 1..Len(self.exact_list) :
            Len(ls) > 0 /\ FlattenAll(ls)[1] = self.exact_list[j] } }
      \cup { FlattenAll(ls)[i] : i \in
               { j \in 1..Len(ls) : is_match(self.regex_set, FlattenAll(ls)[j]) } }

\* runs the pattern pass only when the exact pass found nothing
resolve_watch_refs_either(self, ls) ==
    LET exact_matches == { self.exact_list[i] : i \in
                             { j \in 1..Len(self.exact_list) :
                                 Contains(FlattenAll(ls), self.exact_list[j]) } }
    IN  IF exact_matches # {}
        THEN exact_matches
        ELSE { FlattenAll(ls)[i] : i \in
                 { j \in 1..Len(ls) : is_match(self.regex_set, FlattenAll(ls)[j]) } }

\* WatchReferences::resolve_watch_refs
resolve_watch_refs(self, ls) ==
    LET flat == FlattenAll(ls)
        exact_matches == { self.exact_list[i] : i \in
                             { j \in 1..Len(self.exact_list) :
                                 Contains(flat, self.exact_list[j]) } }
        regex_matches == { flat[i] : i \in
                             { j \in 1..Len(flat) :
                                 is_match(self.regex_set, flat[j]) } }
    IN  exact_matches \cup regex_matches

----------------------------------------------------------------------------
(* Steps of the remote, shared by both specifications *)

Advertise(h) ==
    /\ Len(remoteLs) < MaxLs
    /\ remoteLs' = Append(remoteLs, h)
    /\ pc' = "idle"
    /\ UNCHANGED <<target_ref, remoteHead, remoteFault, cfgExacts, cfgRegexes,
                   watch, target_result, prev_result, watch_result>>

Withdraw(i) ==
    /\ i \in 1..Len(remoteLs)
    /\ remoteLs' = [k \in 1..(Len(remoteLs) - 1) |->
                      IF k < i THEN remoteLs[k] ELSE remoteLs[k + 1]]
    /\ pc' = "idle"
    /\ UNCHANGED <<target_ref, remoteHead, remoteFault, cfgExacts, cfgRegexes,
                   watch, target_result, prev_result, watch_result>>

SetDefaultHead(h) ==
    /\ remoteHead # h
    /\ remoteHead' = h
    /\ pc' = "idle"
    /\ UNCHANGED <<target_ref, remoteLs, remoteFault, cfgExacts, cfgRegexes,
                   watch, target_result, prev_result, watch_result>>

SetFault(e) ==
    /\ remoteFault # e
    /\ remoteFault' = e
    /\ pc' = "idle"
    /\ UNCHANGED <<target_ref, remoteLs, remoteHead, cfgExacts, cfgRegexes,
                   watch, target_result, prev_result, watch_result>>

----------------------------------------------------------------------------
(* Calls into the core *)

ResolveTargetRef ==
    /\ target_result' = resolve_target_ref(target_ref)
    /\ prev_result' = target_result
    /\ pc' = "target_returned"
    /\ UNCHANGED <<target_ref, remoteLs, remoteHead, remoteFault, cfgExacts,
                   cfgRegexes, watch, watch_result>>

New ==
    /\ watch.tag = "NotBuilt"
    /\ watch' = WatchReferencesNew(cfgExacts, cfgRegexes)
    /\ pc' = "new_returned"
    /\ UNCHANGED <<target_ref, remoteLs, remoteHead, remoteFault, cfgExacts,
                   cfgRegexes, target_result, prev_result, watch_result>>

ResolveWatchRefs ==
    /\ watch.tag = "Ok"
    /\ watch_result' = resolve_watch_refs(watch, remoteLs)
    /\ pc' = "watch_returned"
    /\ UNCHANGED <<target_ref, remoteLs, remoteHead, remoteFault, cfgExacts,
                   cfgRegexes, watch, target_result, prev_result>>

----------------------------------------------------------------------------
(* Target resolution against a changing remote *)

InitTarget ==
    /\ target_ref \in {None} \cup { Some(n) : n \in ConfigNames }
    /\ remoteLs = <<>>
    /\ remoteHead = None
    /\ remoteFault = NoFault
    /\ cfgExacts = <<>>
    /\ cfgRegexes = <<>>
    /\ watch = NotBuilt
    /\ target_result = NotCalled
    /\ prev_result = NotCalled
    /\ watch_result = {}
    /\ pc = "idle"

NextTarget ==
    \/ \E h \in RemoteHeads : Advertise(h)
    \/ \E i \in 1..MaxLs : Withdraw(i)
    \/ \E h \in {None} \cup { Some(n) : n \in {Master, Pull42} } : SetDefaultHead(h)
    \/ \E e \in {NoFault} \cup RemoteErrors : SetFault(e)
    \/ ResolveTargetRef

SpecTarget == InitTarget /\ [][NextTarget]_vars

(* Watch resolution of a compiled watch specification *)

InitWatch ==
    /\ target_ref = None
    /\ remoteLs = <<>>
    /\ remoteHead = None
    /\ remoteFault = NoFault
    /\ cfgExacts \in SeqsUpTo(ExactNames, MaxExacts)
    /\ cfgRegexes \in SeqsUpTo(PatternUniverse, MaxPats)
    /\ watch = NotBuilt
    /\ target_result = NotCalled
    /\ prev_result = NotCalled
    /\ watch_result = {}
    /\ pc = "idle"

\* the matcher is compiled at startup, before the first listing is polled
NextWatch ==
    \/ \E h \in RemoteHeads : watch.tag = "Ok" /\ Advertise(h)
    \/ \E i \in 1..MaxLs : watch.tag = "Ok" /\ Withdraw(i)
    \/ New
    \/ ResolveWatchRefs

SpecWatch == InitWatch /\ [][NextWatch]_vars

----------------------------------------------------------------------------
(* Properties *)

OwnNames == [i \in 1..Len(remoteLs) |-> remoteLs[i].name]
FlatNames == [i \in 1..Len(remoteLs) |-> flatten_clone(remoteLs[i])]
MatchedByConfig(n) == \E j \in 1..Len(cfgRegexes) : PatternMatches(cfgRegexes[j], n)
ConfiguredExact(n) == \E j \in 1..Len(cfgExacts) : cfgExacts[j] = n
TargetReturned == pc = "target_returned"
WatchReturned == pc = "watch_returned"

\* C1 as stated: with a configured target and a remote that answers, the result
\* is Ok(name) when name is among the FLATTENED names of the listing and
\* target-not-found otherwise.
C1_AsStated ==
    (TargetReturned /\ target_ref # None /\ remoteFault = NoFault) =>
        IF Contains(FlatNames, Unwrap(target_ref))
        THEN target_result = Ok(Unwrap(target_ref))
        ELSE target_result = ErrTargetNotFound(Unwrap(target_ref))

\* C1 amended: with a configured target and a remote that answers, the result
\* is Ok(name) when name is the own name of some listing entry (symbolic
\* targets are not substituted) and target-not-found otherwise, whatever the
\* remote's default HEAD is.
C1_OwnNameLookup ==
    (TargetReturned /\ target_ref # None /\ remoteFault = NoFault) =>
        IF Contains(OwnNames, Unwrap(target_ref))
        THEN target_result = Ok(Unwrap(target_ref))
        ELSE target_result = ErrTargetNotFound(Unwrap(target_ref))

\* the configured name is only the target of an alias, the remote has a
\* default HEAD, and the resolution has failed with target-not-found
C1_Witness ==
    /\ TargetReturned
    /\ target_ref = Some(Master)
    /\ remoteFault = NoFault
    /\ remoteLs = <<RemoteHead(HEAD, Some(Master))>>
    /\ remoteHead = Some(Master)
    /\ target_result = ErrTargetNotFound(Master)

\* C5: with no configured target and a remote that answers, the result is
\* Ok(h) exactly when the remote reports the default HEAD h and
\* no-default-HEAD exactly when it reports none, whatever the listing holds.
C5_DefaultHead ==
    (TargetReturned /\ target_ref = None /\ remoteFault = NoFault) =>
        /\ (remoteHead # None => target_result = Ok(Unwrap(remoteHead)))
        /\ (remoteHead = None => target_result = ErrNoDefaultHead)
        /\ (target_result.tag = "Ok" <=> remoteHead # None)
        /\ (target_result.tag = "NoDefaultHead" <=> remoteHead = None)

\* no target configured, the remote reports a HEAD that its listing lacks
C5_Witness ==
    /\ TargetReturned
    /\ target_ref = None
    /\ remoteFault = NoFault
    /\ remoteHead = Some(Master)
    /\ ~ Contains(OwnNames, Master)
    /\ ~ Contains(FlatNames, Master)
    /\ target_result = Ok(Master)

\* C6 as stated: a successful resolution, in either branch, returns a name of
\* a reference present in the remote's listing (by own or flattened name).
C6_AsStated ==
    (TargetReturned /\ target_result.tag = "Ok") =>
        \/ Contains(OwnNames, target_result.val)
        \/ Contains(FlatNames, target_result.val)

\* C6 amended: a successful resolution of a configured target returns the own
\* name of a listing entry, and a configured target that no entry bears fails;
\* a successful resolution without a configured target returns the remote's
\* reported default HEAD, which is not looked up in the listing.
C6_PresentWhenConfigured ==
    TargetReturned =>
        /\ (target_result.tag = "Ok" /\ target_ref # None) =>
               \E i \in 1..Len(remoteLs) : remoteLs[i].name = target_result.val
        /\ (target_ref # None /\ ~ Contains(OwnNames, Unwrap(target_ref))) =>
               target_result.tag # "Ok"
        /\ (target_result.tag = "Ok" /\ target_ref = None) =>
               remoteHead = Some(target_result.val)

\* a configured target has been resolved while the listing does not hold the
\* remote's default HEAD
C6_Witness ==
    /\ TargetReturned
    /\ target_ref = Some(Pull42)
    /\ target_result = Ok(Pull42)
    /\ remoteHead = Some(Master)
    /\ ~ Contains(OwnNames, Master)

\* C7: when the remote query fails, the result is the error carrying that
\* failure, in both branches: never Ok, target-not-found or no-default-HEAD.
C7_RemoteErrorPropagated ==
    (TargetReturned /\ remoteFault # NoFault) =>
        /\ target_result.tag = "RemoteError"
        /\ target_result.cause = remoteFault

\* the listing query has failed although the configured target is advertised
C7_Witness ==
    /\ TargetReturned
    /\ remoteFault = "E2"
    /\ target_ref = Some(Master)
    /\ Contains(OwnNames, Master)
    /\ target_result = ErrRemote("E2")

\* C9: a call's result is decided by the configured target and the remote as
\* it is at that call, whatever the call before returned: a target found
\* before and withdrawn since is not found, one missing before and advertised
\* since resolves, and the same holds for the default HEAD and for failures.
C9_NoRetainedState ==
    (TargetReturned /\ prev_result.tag # "NotCalled") =>
        /\ (remoteFault = NoFault /\ target_ref # None
              /\ ~ Contains(OwnNames, Unwrap(target_ref))) =>
               target_result.tag = "TargetNotFound"
        /\ (remoteFault = NoFault /\ target_ref # None
              /\ Contains(OwnNames, Unwrap(target_ref))) =>
               target_result.tag = "Ok"
        /\ (remoteFault = NoFault /\ target_ref = None /\ remoteHead = None) =>
               target_result.tag = "NoDefaultHead"
        /\ (remoteFault = NoFault /\ target_ref = None /\ remoteHead # None) =>
               target_result.val = Unwrap(remoteHead)
        /\ (remoteFault = NoFault) => target_result.tag # "RemoteError"
        /\ (remoteFault # NoFault) => target_result.tag = "RemoteError"

\* the target resolved at the call before, was withdrawn, and is not found now
C9_Witness ==
    /\ TargetReturned
    /\ target_ref # None
    /\ prev_result = Ok(Unwrap(target_ref))
    /\ remoteFault = NoFault
    /\ target_result = ErrTargetNotFound(Unwrap(target_ref))

\* C8: new fails with the invalid-pattern error whenever some pattern of the
\* list does not parse, wherever it stands, and then holds no matcher; when
\* every pattern parses it succeeds and holds the given names and patterns.
C8_NewValidatesPatterns ==
    /\ watch.tag # "NotBuilt" =>
         IF \E j \in 1..Len(cfgRegexes) : ~ IsValidPattern(cfgRegexes[j])
         THEN /\ watch.tag = "InvalidPattern"
              /\ watch.regex_set = <<>>
              /\ watch.exact_list = <<>>
         ELSE /\ watch.tag = "Ok"
              /\ watch.exact_list = cfgExacts
              /\ watch.regex_set = cfgRegexes
    /\ WatchReturned => \A j \in 1..Len(cfgRegexes) : IsValidPattern(cfgRegexes[j])

\* new has failed on a list whose second pattern is the invalid one
C8_Witness ==
    /\ pc = "new_returned"
    /\ cfgRegexes = <<MasterPattern, UnclosedPattern>>
    /\ cfgExacts = <<Master>>
    /\ watch.tag = "InvalidPattern"

\* C2: every name of the returned set is the flattened name of a snapshot
\* entry and is a configured exact name or matched by a configured pattern;
\* with no exact name and no pattern the set is empty.
C2_Soundness ==
    WatchReturned =>
        /\ \A n \in watch_result :
             /\ \E i \in 1..Len(remoteLs) : flatten_clone(remoteLs[i]) = n
             /\ ConfiguredExact(n) \/ MatchedByConfig(n)
        /\ (cfgExacts = <<>> /\ cfgRegexes = <<>>) => watch_result = {}

\* an exact name is configured that the snapshot lacks, next to a pattern
\* that has put a name in the result
C2_Witness ==
    /\ WatchReturned
    /\ cfgExacts = <<Master>>
    /\ cfgRegexes = <<PullPattern>>
    /\ ~ Contains(FlatNames, Master)
    /\ watch_result = {Pull42}

\* C3: a configured exact name is in the returned set if and only if it is
\* verbatim among the flattened names of the snapshot.
C3_ExactCompleteness ==
    WatchReturned =>
        \A j \in 1..Len(cfgExacts) :
            cfgExacts[j] \in watch_result <=> Contains(FlatNames, cfgExacts[j])

\* the exact name is advertised at the second entry only, and only as the
\* target of an alias
C3_Witness ==
    /\ WatchReturned
    /\ cfgExacts = <<Master>>
    /\ cfgRegexes = <<>>
    /\ remoteLs = <<RemoteHead(Pull42, None), RemoteHead(HEAD, Some(Master))>>
    /\ watch_result = {Master}

\* a configured exact name that is a proper prefix of an advertised name is
\* left out
C3_PrefixWitness ==
    /\ WatchReturned
    /\ cfgExacts = <<PullPrefix>>
    /\ Contains(FlatNames, Pull42)
    /\ watch_result = {}

\* C4: a symbolic entry whose target is matched by a pattern puts its target
\* in the result, once, and its own name is in the result only if it is the
\* flattened name of an entry; the snapshot [HEAD -> master, master, pull/42]
\* with exact master and the pull pattern gives {master, pull/42}.
C4_SymbolicUnderTarget ==
    WatchReturned =>
        /\ \A i \in 1..Len(remoteLs) :
             (remoteLs[i].symref_target # None
                /\ MatchedByConfig(Unwrap(remoteLs[i].symref_target))) =>
                 /\ Cardinality({ n \in watch_result :
                                    n = Unwrap(remoteLs[i].symref_target) }) = 1
                 /\ (remoteLs[i].name # Unwrap(remoteLs[i].symref_target)
                       /\ remoteLs[i].name \in watch_result) =>
                        \E k \in 1..Len(remoteLs) :
                            k # i /\ flatten_clone(remoteLs[k]) = remoteLs[i].name
        /\ (/\ remoteLs = <<RemoteHead(HEAD, Some(Master)),
                            RemoteHead(Master, None), RemoteHead(Pull42, None)>>
            /\ cfgExacts = <<Master>>
            /\ cfgRegexes = <<PullPattern>>) =>
               watch_result = {Master, Pull42}

\* the alias's target is matched by a pattern and its own name is a
\* configured exact name, and only the target is in the result
C4_Witness ==
    /\ WatchReturned
    /\ cfgExacts = <<HEAD>>
    /\ cfgRegexes = <<MasterPattern>>
    /\ remoteLs = <<RemoteHead(HEAD, Some(Master))>>
    /\ watch_result = {Master}

\* C10: the returned set is the union of the configured exact names found
\* among the flattened names and the flattened names matched by a pattern.
C10_PatternCompleteness ==
    WatchReturned =>
        /\ \A i \in 1..Len(remoteLs) :
             MatchedByConfig(flatten_clone(remoteLs[i])) =>
                 flatten_clone(remoteLs[i]) \in watch_result
        /\ watch_result =
             { n \in ExactNames : ConfiguredExact(n) /\ Contains(FlatNames, n) }
               \cup { n \in RefNames : Contains(FlatNames, n) /\ MatchedByConfig(n) }

\* an exact name and a pattern have each put a different name in the result
C10_Witness ==
    /\ WatchReturned
    /\ cfgExacts = <<Master>>
    /\ cfgRegexes = <<PullPattern>>
    /\ watch_result = {Master, Pull42}

====
